---- MODULE Spec2Model ----
(***************************************************************************)
(* Model of the voice capture pipeline of scripts/voice_recorder.py        *)
(* (class VoiceRecorder and record_until_enter).                           *)
(*                                                                         *)
(* A thread of control calls the public operations of one VoiceRecorder.   *)
(* The operations that loop over frames (wait_for_sound,                   *)
(* record_until_silence, record_and_transcribe) are cut at their loop      *)
(* iterations: one action is one iteration, with everything the iteration  *)
(* runs before the next blocking read, the trailing stop_recording of a    *)
(* loop exit included.                                                     *)
(*                                                                         *)
(* Time is counted in milliseconds: chunk / rate = 1024 / 16000 s = 64 ms. *)
(* The code adds the float 0.064 once per silent frame and compares the    *)
(* sum with silence_duration; the durations used here are no multiple of   *)
(* 64 ms, so the float sum and the integer sum are on the same side of the *)
(* threshold.                                                              *)
(*                                                                         *)
(* A frame is named by the stream it was read from and its position in     *)
(* that stream, <<sid, k>>; whether it is speech is an input of the read   *)
(* (is_speech is a function of the frame's samples, which the microphone   *)
(* chooses).                                                               *)
(*                                                                         *)
(* A user interrupt (KeyboardInterrupt) is delivered while the thread is   *)
(* blocked in a frame loop (stream.read / time.sleep) or in input(), and   *)
(* in live mode also during the transcription and the model call.          *)
(*                                                                         *)
(* Eight specifications share the variables: Spec (a client calling any    *)
(* operation of the recorder, one thread), SpecGate (record_until_silence  *)
(* only, with streams long enough for the default silence_duration),       *)
(* SpecEnter (record_until_enter, with its record thread), SpecLive (the   *)
(* turn loop of scripts/live_conversation.py, with the conversation it     *)
(* loads and saves), SpecClassify (calls of is_speech on frames given by   *)
(* their measures or by a line spectrum), SpecConversation (a client of    *)
(* one ConversationManager of scripts/conversation_manager.py), SpecCli    *)
(* (processes of scripts/conversation_cli.py and live mode sharing         *)
(* conversation.pkl) and SpecConverse (the loop of scripts/converse.py).   *)
(***************************************************************************)
EXTENDS Integers, Sequences, FiniteSets, TLC

VARIABLES
  is_recording,          \* self.is_recording
  frames,                \* self.frames
  stream,                \* self.stream: 0 is None, else the id of a stream
  streams,               \* every stream opened so far, by id
  files,                 \* every temporary file created so far, by id
  wav,                   \* what the wave.open(...) block of this call wrote
  pc,                    \* where the calling thread is
  op,                    \* the public operation called last
  ret,                   \* how the last call ended
  lstream,               \* wait_for_sound's local `stream`
  consecutive_chunks,    \* wait_for_sound's parameter
  speech_count,          \* wait_for_sound's local
  silence_duration,      \* record_until_silence's parameter, in ms
  consecutive_silence,   \* record_until_silence's local, in ms
  has_recorded_speech,   \* record_until_silence's local
  duration,              \* record_and_transcribe's parameter: 0 is None
  tpc,                   \* where record_until_enter's record thread is
  tdata,                 \* the record thread's `data`: <<>> or <<frame>>
  heard,                 \* history: verdicts of the frames wait_for_sound read
  tail,                  \* history: non-speech frames since the last speech frame
  exit_cause,            \* history: why the capture loop was left
  callOpened,            \* history: ids of the streams the call opened
  finished,              \* history: ids of the streams stop_recording closed
  supply,                \* frames a recording stream can deliver
  init_failures,         \* calls of pyaudio.PyAudio() that raised so far
  conversation_history,  \* manager.conversation_history: <<role, content>>
  turn_number,           \* live mode: turn_number, 0 before main has set it
  stored,                \* conversation.pkl: what a load of it gives
  cli_pc,                \* per process: where its command is
  cli_history,           \* per process: conversation_history of its manager
  asks,                  \* history: calls of manager.ask made so far
  completed,             \* history: ask commands and live turns that ended
  typed,                 \* history: the line input() returned in converse.py
  sent,                  \* history: what this iteration gave to llm.invoke
  cframe,                \* is_speech: the measures of the frame in `data`
  cthreshold,            \* is_speech: energy_threshold, in thousandths
  cverdict,              \* is_speech: what the call returned
  cstages,               \* history: the stages the call evaluated, in order
  csignal,               \* history: the synthetic signal the frame was made of
  faulted                \* history: ids of the open streams a read failed on

recVars  == <<is_recording, frames, stream>>
devVars  == <<streams, files, wav>>
ctlVars  == <<pc, op, ret>>
waitVars == <<lstream, consecutive_chunks, speech_count>>
capVars  == <<silence_duration, consecutive_silence, has_recorded_speech>>
thrVars  == <<tpc, tdata>>
histVars == <<heard, tail, exit_cause, callOpened, finished>>
clsVars  == <<cframe, cthreshold, cverdict, cstages, csignal>>
cliVars  == <<cli_pc, cli_history, asks, completed>>
inVars   == <<typed, sent>>
convVars == <<conversation_history, turn_number, stored, cliVars, inVars>>
vars     == <<recVars, devVars, ctlVars, waitVars, capVars, duration, thrVars,
              histVars, supply, convVars, init_failures, clsVars, faulted>>

(***************************************************************************)
(* Program constants.                                                      *)
(***************************************************************************)
chunk == 1024
rate == 16000
channels == 1
sample_width == 2
default_consecutive_chunks == 3
default_silence_duration == 2000
\* is_speech, in thousandths: energy_threshold's default, the silence_threshold
\* record_until_silence passes, the ZCR limits 0.01 and 0.4; the least share
\* of the mid band, in percent
default_energy_threshold == 20
default_silence_threshold == 10
zcr_min == 10
zcr_max == 400
mid_ratio_min == 25

(***************************************************************************)
(* Bounds of the model.                                                    *)
(***************************************************************************)
\* frames one recording stream delivers to a client that calls any operation
MaxReads == 5
\* frames one recording stream delivers to a client that only calls
\* record_until_silence
GateReads == 34
\* frames one listening stream delivers
MaxListen == 6
\* device sessions in one behaviour: streams opened, and calls of
\* pyaudio.PyAudio() in start_recording that raised
MaxStreams == 2
\* a short silence_duration (ms) a caller may pass instead of the default
ShortSilence == 150
\* the largest mean magnitude of a frequency band
MaxBand == 3
\* distinct questions of a conversation
MaxMessages == 1
\* exchanges a conversation history holds
MaxExchanges == 5
\* processes that run conversation_cli.py or live_conversation.py at a time
MaxProcs == 2
\* calls of manager.ask in one behaviour, by the processes sharing
\* conversation.pkl or by the converse loop
MaxAsks == 2

SilenceDurations == {ShortSilence, default_silence_duration}
ChunkChoices == 1..default_consecutive_chunks

\* chunk_duration = self.chunk / self.rate, in ms
chunk_duration == (chunk * 1000) \div rate

Ret(kind) == [kind |-> kind, file |-> 0]
NoRet == Ret("none")
\* the processes that share conversation.pkl
Procs == 1..MaxProcs
\* a line of text at the prompt of converse.py: whether white space surrounds
\* it, whether its first word starts with "/", the letters of that word in
\* lower case, whether some of them were typed in upper case, and whether
\* more words follow.  NoLine is the empty string.
NoLine ==
  [pad |-> FALSE, slash |-> FALSE, word |-> "", upper |-> FALSE,
   rest |-> FALSE]
NoWav == [nchannels |-> 0, sampwidth |-> 0, framerate |-> 0, data |-> <<>>]
\* no conversation.pkl
NoStore == [exists |-> FALSE, history |-> <<>>]
\* pickle.dump(manager, f) of a manager with this history
StoreOf(h) == [exists |-> TRUE, history |-> h]

(***************************************************************************)
(* The microphone device (PyAudio): streams by id, in the order opened.    *)
(* reads counts the frames an open stream has delivered.                   *)
(***************************************************************************)
\* audio.open(...) succeeding
OpenStream(ss) ==
  Append(ss, [open |-> TRUE, closes |-> 0, reads |-> 0])

\* stream.stop_stream(); stream.close()
CloseStream(ss, sid) ==
  [ss EXCEPT ![sid] = [open |-> FALSE, closes |-> @.closes + 1, reads |-> 0]]

\* audio.terminate(): PyAudio closes the streams of the instance that are
\* still open; every PyAudio instance of this program owns at most one.
Terminate(ss, sid) ==
  IF sid # 0 /\ ss[sid].open THEN CloseStream(ss, sid) ELSE ss

\* the frame the next successful stream.read(self.chunk) returns
NextFrame(ss, sid) ==
  <<sid, ss[sid].reads + 1>>

Delivered(ss, sid) ==
  [ss EXCEPT ![sid].reads = @ + 1]

OpenIds(ss) ==
  {i \in 1..Len(ss) : ss[i].open}

\* whether stream sid has a frame left to deliver
CanDeliver(ss, sid, cap) ==
  ss[sid].open /\ ss[sid].reads < cap

(***************************************************************************)
(* VoiceRecorder.start_recording                                           *)
(***************************************************************************)
\* the behaviour has a device session left
DeviceAvailable ==
  Len(streams) + init_failures < MaxStreams

\* "already": line 83.  "init_failed": pyaudio.PyAudio() at line 89 raises
\* (PortAudio cannot be initialised).  "open_failed": audio.open raises
\* inside the try of lines 92-103.
StartOutcomes ==
  IF is_recording THEN {"already"}
  ELSE {"open_failed"}
         \cup (IF DeviceAvailable THEN {"init_failed", "opened"} ELSE {})

\* mutant: the buffer is cleared before the `if self.is_recording` test
start_recording_clears_first(outcome) ==
  /\ outcome \in StartOutcomes
  /\ CASE outcome = "already" ->
            /\ frames' = <<>>
            /\ UNCHANGED <<is_recording, stream, streams, init_failures>>
       [] outcome = "opened" ->
            /\ frames' = <<>>
            /\ is_recording' = TRUE
            /\ streams' = OpenStream(streams)
            /\ stream' = Len(streams) + 1
            /\ UNCHANGED init_failures
       [] outcome = "init_failed" ->
            /\ frames' = <<>>
            /\ is_recording' = TRUE
            /\ init_failures' = init_failures + 1
            /\ UNCHANGED <<stream, streams>>
       [] outcome = "open_failed" ->
            /\ frames' = <<>>
            /\ is_recording' = FALSE
            /\ UNCHANGED <<stream, streams, init_failures>>

\* mutant: the buffer of the earlier session is kept
start_recording_keeps_frames(outcome) ==
  /\ outcome \in StartOutcomes
  /\ CASE outcome = "already" ->
            UNCHANGED <<is_recording, frames, stream, streams, init_failures>>
       [] outcome = "opened" ->
            /\ frames' = frames
            /\ is_recording' = TRUE
            /\ streams' = OpenStream(streams)
            /\ stream' = Len(streams) + 1
            /\ UNCHANGED init_failures
       [] outcome = "init_failed" ->
            /\ frames' = <<>>
            /\ is_recording' = TRUE
            /\ init_failures' = init_failures + 1
            /\ UNCHANGED <<stream, streams>>
       [] outcome = "open_failed" ->
            /\ frames' = <<>>
            /\ is_recording' = FALSE
            /\ UNCHANGED <<stream, streams, init_failures>>

start_recording(outcome) ==
  /\ outcome \in StartOutcomes
  /\ CASE outcome = "already" ->
            UNCHANGED <<is_recording, frames, stream, streams, init_failures>>
       [] outcome = "opened" ->
            /\ frames' = <<>>
            /\ is_recording' = TRUE
            /\ streams' = OpenStream(streams)
            /\ stream' = Len(streams) + 1
            /\ UNCHANGED init_failures
       [] outcome = "init_failed" ->
            /\ frames' = <<>>
            /\ is_recording' = TRUE
            /\ init_failures' = init_failures + 1
            /\ UNCHANGED <<stream, streams>>
       [] outcome = "open_failed" ->
            /\ frames' = <<>>
            /\ is_recording' = FALSE
            /\ UNCHANGED <<stream, streams, init_failures>>

\* None, RuntimeError("Already recording" / "Failed to start recording"),
\* or the exception of pyaudio.PyAudio() as it was raised
StartResult(outcome) ==
  CASE outcome = "opened" -> Ret("None")
    [] outcome = "init_failed" -> Ret("OSError")
    [] OTHER -> Ret("RuntimeError")

(***************************************************************************)
(* VoiceRecorder.stop_recording, past its `if not self.is_recording` test. *)
(* fr and ss are the buffer and the device as the caller leaves them.      *)
(***************************************************************************)
\* if self.stream: stop_stream(); close()   if self.audio: terminate()
\* self.stream may be the stream of an earlier session, closed by then:
\* stopping and closing it again changes nothing on the device.
StopStreams(ss, sid) ==
  Terminate(IF sid # 0 /\ ss[sid].open THEN CloseStream(ss, sid) ELSE ss, sid)

\* mutant: the last buffered frame is not written
WaveWrite_drops_last(fr) ==
  [nchannels |-> channels, sampwidth |-> sample_width, framerate |-> rate,
   data |-> SubSeq(fr, 1, Len(fr) - 1)]

\* mutant: the file is declared stereo
WaveWrite_stereo(fr) ==
  [nchannels |-> 2, sampwidth |-> sample_width, framerate |-> rate,
   data |-> fr]

\* the wave.open(temp_path, 'wb') block
WaveWrite(fr) ==
  [nchannels |-> channels, sampwidth |-> sample_width, framerate |-> rate,
   data |-> fr]

\* tempfile.NamedTemporaryFile(delete=False), then the write or its failure
FilesAfterStop(fs, writeOK) ==
  Append(fs, IF writeOK THEN "written" ELSE "partial")

\* return temp_path / raise RuntimeError("Failed to save audio")
StopResult(fs, writeOK) ==
  IF writeOK THEN [kind |-> "path", file |-> Len(fs) + 1]
  ELSE Ret("RuntimeError")

\* mutant: self.is_recording is left set
stop_recording_keeps_flag(fr, ss, writeOK) ==
  /\ is_recording' = is_recording
  /\ frames' = fr
  /\ streams' = StopStreams(ss, stream)
  /\ files' = FilesAfterStop(files, writeOK)
  /\ wav' = IF writeOK THEN WaveWrite(fr) ELSE NoWav
  /\ ret' = StopResult(files, writeOK)
  /\ finished' = finished \cup ({stream} \ {0})
  /\ faulted' = faulted \ {stream}
  /\ UNCHANGED stream

stop_recording(fr, ss, writeOK) ==
  /\ is_recording' = FALSE
  /\ frames' = fr
  /\ streams' = StopStreams(ss, stream)
  /\ files' = FilesAfterStop(files, writeOK)
  /\ wav' = IF writeOK THEN WaveWrite(fr) ELSE NoWav
  /\ ret' = StopResult(files, writeOK)
  /\ finished' = finished \cup ({stream} \ {0})
  /\ faulted' = faulted \ {stream}
  /\ UNCHANGED stream

\* bytes of one frame: stream.read(self.chunk) of paInt16 samples
FrameBytes == chunk * sample_width * channels

\* what the wave module reports of a file written by WaveWrite: the header
\* fields, and the sample count it derives from the length of the data
WaveRead(w) ==
  [nchannels |-> w.nchannels,
   bits |-> 8 * w.sampwidth,
   framerate |-> w.framerate,
   nframes |-> (Len(w.data) * FrameBytes) \div (w.nchannels * w.sampwidth)]

(***************************************************************************)
(* VoiceRecorder.record_chunk                                              *)
(***************************************************************************)
ChunkInputs ==
  IF ~is_recording \/ stream = 0 THEN {"skip"}
  ELSE {"error"} \cup (IF CanDeliver(streams, stream, supply) THEN {"data"}
                       ELSE {})

\* mutant: the frame is put at the head of the buffer
FramesAfterRead_prepends(fr, ss, sid) ==
  <<NextFrame(ss, sid)>> \o fr

FramesAfterRead(fr, ss, sid) ==
  Append(fr, NextFrame(ss, sid))

record_chunk(input) ==
  /\ input \in ChunkInputs
  /\ IF input = "data"
       THEN /\ frames' = FramesAfterRead(frames, streams, stream)
            /\ streams' = Delivered(streams, stream)
       ELSE UNCHANGED <<frames, streams>>
  /\ faulted' = IF input = "error" THEN faulted \cup {stream} ELSE faulted
  /\ UNCHANGED <<is_recording, stream>>

(***************************************************************************)
(* VoiceRecorder.is_speech.  A frame is given by what the function         *)
(* measures of it: its normalized RMS energy and its zero-crossing rate,   *)
(* in thousandths, and the mean magnitudes of the three frequency bands.   *)
(***************************************************************************)
NoFrame == [rms |-> 0, zcr |-> 0, low |-> 0, mid |-> 0, high |-> 0]
NoSignal == [kind |-> "none", rms |-> 0, floor |-> 0, peaks |-> <<>>]

\* the thresholds the program calls is_speech with: 0.02 (the default, and
\* silence_threshold * 2 in record_until_silence) and 0.01
Thresholds == {default_silence_threshold, default_energy_threshold}

\* measures on both sides of every limit, and on it
RmsLevels == {t + d : t \in Thresholds, d \in {-1, 0, 1}}
ZcrLevels == {0} \cup {z + d : z \in {zcr_min, zcr_max}, d \in {-1, 0, 1}}
Frames ==
  [rms : RmsLevels, zcr : ZcrLevels, low : 0..MaxBand, mid : {0, 1},
   high : 0..MaxBand]

\* the frames a call with this threshold is tried on: energy next to it
FramesNear(threshold) ==
  {f \in Frames : f.rms \in {threshold - 1, threshold, threshold + 1}}

\* total_energy = low_energy + mid_energy + high_energy
TotalEnergy(f) ==
  f.low + f.mid + f.high

\* mutant: the energy gate rejects a frame at the threshold
is_speech_strict(f, threshold) ==
  IF f.rms <= threshold THEN FALSE
  ELSE IF f.zcr < zcr_min \/ f.zcr > zcr_max THEN FALSE
  ELSE IF TotalEnergy(f) = 0 THEN FALSE
  ELSE IF 100 * f.mid < mid_ratio_min * TotalEnergy(f) THEN FALSE
  ELSE TRUE

\* the returns of is_speech, in the order of the code
is_speech(f, threshold) ==
  IF f.rms < threshold THEN FALSE
  ELSE IF f.zcr < zcr_min \/ f.zcr > zcr_max THEN FALSE
  ELSE IF TotalEnergy(f) = 0 THEN FALSE
  ELSE IF 100 * f.mid < mid_ratio_min * TotalEnergy(f) THEN FALSE
  ELSE TRUE

\* mutant: the three measures are all computed before the first test
StagesEvaluated_eager(f, threshold) ==
  <<"energy", "zcr", "spectrum">>

\* the measures the call has computed when it returns
StagesEvaluated(f, threshold) ==
  IF f.rms < threshold THEN <<"energy">>
  ELSE IF f.zcr < zcr_min \/ f.zcr > zcr_max THEN <<"energy", "zcr">>
  ELSE <<"energy", "zcr", "spectrum">>

\* one call of is_speech(data, energy_threshold)
is_speech_call ==
  /\ \E threshold \in Thresholds : \E f \in FramesNear(threshold) :
       /\ cframe' = f
       /\ cthreshold' = threshold
       /\ cverdict' = is_speech(f, threshold)
       /\ cstages' = StagesEvaluated(f, threshold)
  /\ csignal' = NoSignal
  /\ UNCHANGED <<recVars, devVars, ctlVars, waitVars, capVars, duration,
                 thrVars, histVars, supply, convVars, init_failures, faulted>>

(***************************************************************************)
(* Synthetic signals and the measures is_speech takes of them.  A signal   *)
(* is a sum of sinusoids, given by the peak each puts in the magnitude     *)
(* spectrum, over a flat noise floor.  Each sinusoid is taken to fall in   *)
(* one bin of the rfft (exact for the formant frequencies, which are       *)
(* multiples of rate / chunk; the leakage of the 440 Hz tone is left out). *)
(***************************************************************************)
\* the frequency (Hz) of the pure tone, and the formants of the multi-band
\* signals: one below 1000 Hz, two between 1000 and 4000 Hz
ToneHz == {440}
FormantHz == {750, 1250, 2500}

\* freq_bins = len(magnitude), the length of np.fft.rfft of one chunk
freq_bins == chunk \div 2 + 1

\* int(freq_bins * 0.125), int(freq_bins * 0.5), int(freq_bins * 0.75)
LowEnd == (freq_bins * 125) \div 1000
MidEnd == (freq_bins * 5) \div 10
HighEnd == (freq_bins * 75) \div 100

\* mutant: the frequency in Hz is taken for the bin
BinOf_hz(freq) ==
  freq

\* the rfft bin a sinusoid of this frequency falls in
BinOf(freq) ==
  (freq * chunk) \div rate

RECURSIVE SumPeaks(_, _)
SumPeaks(peaks, fs) ==
  IF fs = {} THEN 0
  ELSE LET f == CHOOSE g \in fs : TRUE
       IN  peaks[f] + SumPeaks(peaks, fs \ {f})

\* the sum of magnitude[lo:hi]
BandSum(sig, lo, hi) ==
  sig.floor * (hi - lo)
    + SumPeaks(sig.peaks, {f \in DOMAIN sig.peaks : lo <= BinOf(f) /\ BinOf(f) < hi})

\* np.mean of a band, times the widths of the three bands (is_speech only
\* compares the means with one another)
BandMean(sig, lo, hi) ==
  BandSum(sig, lo, hi)
    * ((LowEnd * (MidEnd - LowEnd) * (HighEnd - MidEnd)) \div (hi - lo))

\* zero crossings per thousand samples of a sinusoid: two in each cycle
ZcrOfTone(freq) ==
  (2 * freq * 1000) \div rate

\* the component that sets the crossings of a sum: the strongest one, the
\* lowest of them when several are
Dominant(peaks) ==
  CHOOSE f \in DOMAIN peaks :
    \A g \in DOMAIN peaks :
      peaks[g] < peaks[f] \/ (peaks[g] = peaks[f] /\ f <= g)

\* the measures is_speech takes of the chunk (lines 187, 194-195, 204-216)
FrameOf(sig) ==
  [rms  |-> sig.rms,
   zcr  |-> ZcrOfTone(Dominant(sig.peaks)),
   low  |-> BandMean(sig, 0, LowEnd),
   mid  |-> BandMean(sig, LowEnd, MidEnd),
   high |-> BandMean(sig, MidEnd, HighEnd)]

\* signals with an energy at or above the threshold: pure tones, and
\* formants (not all absent) over a noise floor; a peak of LowEnd puts a
\* mean of one in the low band
Signals(threshold) ==
  {[kind |-> "tone", rms |-> r, floor |-> 0, peaks |-> [f \in ToneHz |-> LowEnd * a]] :
      r \in {threshold, threshold + 1}, a \in 1..MaxBand}
  \cup
  {[kind |-> "multiband", rms |-> r, floor |-> n, peaks |-> [f \in FormantHz |-> LowEnd * a[f]]] :
      r \in {threshold, threshold + 1}, n \in {0, 1},
      a \in {b \in [FormantHz -> 0..MaxBand] : \E f \in FormantHz : b[f] > 0}}

\* the calls of is_speech tried on synthetic signals, with the measures of
\* each chunk
SignalCalls ==
  UNION {{[threshold |-> t, sig |-> sig, frame |-> FrameOf(sig)] :
            sig \in Signals(t)} : t \in Thresholds}

\* one call of is_speech on the chunk of a synthetic signal
is_speech_signal ==
  /\ \E call \in SignalCalls :
       /\ csignal' = call.sig
       /\ cframe' = call.frame
       /\ cthreshold' = call.threshold
       /\ cverdict' = is_speech(call.frame, call.threshold)
       /\ cstages' = StagesEvaluated(call.frame, call.threshold)
  /\ UNCHANGED <<recVars, devVars, ctlVars, waitVars, capVars, duration,
                 thrVars, histVars, supply, convVars, init_failures, faulted>>

(***************************************************************************)
(* The state after VoiceRecorder.__init__, with nothing called yet.        *)
(***************************************************************************)
Fresh ==
  /\ is_recording = FALSE
  /\ frames = <<>>
  /\ stream = 0
  /\ streams = <<>>
  /\ files = <<>>
  /\ wav = NoWav
  /\ op = "none"
  /\ ret = NoRet
  /\ lstream = 0
  /\ consecutive_chunks = 0
  /\ speech_count = 0
  /\ silence_duration = 0
  /\ consecutive_silence = 0
  /\ has_recorded_speech = FALSE
  /\ duration = 0
  /\ tpc = "none"
  /\ tdata = <<>>
  /\ heard = <<>>
  /\ tail = 0
  /\ exit_cause = "none"
  /\ callOpened = {}
  /\ finished = {}
  /\ cframe = NoFrame
  /\ cthreshold = 0
  /\ cverdict = FALSE
  /\ cstages = <<>>
  /\ csignal = NoSignal
  /\ faulted = {}
  /\ init_failures = 0
  /\ conversation_history = <<>>
  /\ turn_number = 0
  /\ cli_pc = [p \in Procs |-> "start"]
  /\ cli_history = [p \in Procs |-> <<>>]
  /\ asks = 0
  /\ completed = 0
  /\ typed = NoLine
  /\ sent = <<>>

Init ==
  /\ Fresh
  /\ stored = NoStore
  /\ pc = "idle"
  /\ supply = MaxReads

\* the locals and histories of an earlier call are gone when a call starts
NoWait ==
  /\ lstream' = 0
  /\ consecutive_chunks' = 0
  /\ speech_count' = 0
  /\ heard' = <<>>

NoCapture ==
  /\ silence_duration' = 0
  /\ consecutive_silence' = 0
  /\ has_recorded_speech' = FALSE
  /\ tail' = 0
  /\ exit_cause' = "none"

(***************************************************************************)
(* A client calling the one-step operations of the recorder.               *)
(***************************************************************************)
ApiStartRecording ==
  /\ pc = "idle"
  /\ \E outcome \in StartOutcomes :
       /\ start_recording(outcome)
       /\ ret' = StartResult(outcome)
       /\ callOpened' = IF outcome = "opened" THEN {Len(streams) + 1} ELSE {}
  /\ op' = "start_recording"
  /\ wav' = NoWav
  /\ duration' = 0
  /\ NoWait /\ NoCapture
  /\ UNCHANGED <<files, pc, thrVars, finished, supply, convVars,
                 clsVars, faulted>>

ApiStopRecording ==
  /\ pc = "idle"
  /\ IF is_recording
       THEN \E writeOK \in BOOLEAN : stop_recording(frames, streams, writeOK)
       ELSE /\ ret' = Ret("RuntimeError")
            /\ wav' = NoWav
            /\ UNCHANGED <<recVars, streams, files, finished, faulted>>
  /\ op' = "stop_recording"
  /\ callOpened' = {}
  /\ duration' = 0
  /\ NoWait /\ NoCapture
  /\ UNCHANGED <<pc, thrVars, supply, convVars, init_failures, clsVars>>

ApiRecordChunk ==
  /\ pc = "idle"
  /\ \E input \in ChunkInputs : record_chunk(input)
  /\ ret' = Ret("None")
  /\ op' = "record_chunk"
  /\ callOpened' = {}
  /\ wav' = NoWav
  /\ duration' = 0
  /\ NoWait /\ NoCapture
  /\ UNCHANGED <<files, pc, thrVars, finished, supply, convVars,
                 init_failures, clsVars>>

(***************************************************************************)
(* VoiceRecorder.wait_for_sound, called by the client or by                *)
(* record_until_silence (op tells which).                                  *)
(***************************************************************************)
\* audio = pyaudio.PyAudio(); stream = audio.open(...)
wait_for_sound_open(k) ==
  /\ consecutive_chunks' = k
  /\ speech_count' = 0
  /\ heard' = <<>>
  /\ \/ /\ DeviceAvailable
        /\ streams' = OpenStream(streams)
        /\ lstream' = Len(streams) + 1
        /\ callOpened' = {Len(streams) + 1}
        /\ pc' = "listening"
        /\ ret' = NoRet
     \/ \* audio.open raises: except Exception: audio.terminate(); raise e
        /\ UNCHANGED streams
        /\ lstream' = 0
        /\ callOpened' = {}
        /\ pc' = "idle"
        /\ ret' = Ret("Exception")

WaitInputs ==
  {"error", "interrupt"}
    \cup (IF CanDeliver(streams, lstream, MaxListen) THEN {"speech", "silence"}
          ELSE {})

\* mutant: the counter is not reset by a non-speech frame
SpeechCountAfter_no_reset(count, speaking) ==
  IF speaking THEN count + 1 ELSE count

\* speech_count after one classified frame
SpeechCountAfter(count, speaking) ==
  IF speaking THEN count + 1 ELSE 0

\* if speech_count >= consecutive_chunks
GateOpens(count, k) ==
  count >= k

\* mutant: the KeyboardInterrupt handler does not release the stream
ListenStreamsAfter_leaks(ss, sid, input) ==
  CASE input = "speech" -> Terminate(CloseStream(ss, sid), sid)
    [] input = "interrupt" -> ss
    [] input = "error" -> Terminate(ss, sid)

\* the listening stream on each way out of the loop
ListenStreamsAfter(ss, sid, input) ==
  CASE input \in {"speech", "interrupt"} -> Terminate(CloseStream(ss, sid), sid)
    [] input = "error" -> Terminate(ss, sid)

\* what the call that started the wait ends with, when it ends here
WaitResult(by, input) ==
  CASE input = "error" -> Ret("Exception")
    [] input = "interrupt" ->
         IF by = "record_until_silence" THEN Ret("KeyboardInterrupt")
         ELSE Ret("False")
    [] input = "speech" ->
         IF by = "record_until_silence" THEN NoRet ELSE Ret("True")

\* mutant: record_until_silence does not test what wait_for_sound returned
WaitNextPc_ignores_false(by, input, opens) ==
  IF input = "interrupt" /\ by = "record_until_silence" THEN "rus_start"
  ELSE IF input = "speech" /\ opens /\ by = "record_until_silence" THEN "rus_start"
  ELSE IF input \in {"speech", "silence"} /\ ~opens THEN "listening"
  ELSE "idle"

\* where the caller goes on: record_until_silence raises KeyboardInterrupt
\* when wait_for_sound returns False, and starts recording when it returns True
WaitNextPc(by, input, opens) ==
  IF input = "speech" /\ opens /\ by = "record_until_silence" THEN "rus_start"
  ELSE IF input \in {"speech", "silence"} /\ ~opens THEN "listening"
  ELSE "idle"

\* mutant: the frame that was listened to is put in the buffer
FramesAfterListen_stores(fr, ss, sid) ==
  Append(fr, NextFrame(ss, sid))

\* self.frames after a frame was read from the listening stream: `data` is
\* passed to is_speech and dropped
FramesAfterListen(fr, ss, sid) ==
  fr

\* one iteration of `while True`, and what follows when it leaves the loop
wait_for_sound_frame ==
  /\ pc = "listening"
  /\ \E input \in WaitInputs :
       LET got == input \in {"speech", "silence"}
           count == SpeechCountAfter(speech_count, input = "speech")
           opens == input = "speech" /\ GateOpens(count, consecutive_chunks)
           leaves == opens \/ ~got
           ss == IF got THEN Delivered(streams, lstream) ELSE streams
       IN  /\ heard' = IF got THEN Append(heard, input = "speech") ELSE heard
           /\ speech_count' = IF got THEN count ELSE speech_count
           /\ streams' = IF leaves THEN ListenStreamsAfter(ss, lstream, input)
                         ELSE ss
           /\ lstream' = IF leaves THEN 0 ELSE lstream
           /\ pc' = WaitNextPc(op, input, opens)
           /\ ret' = IF leaves THEN WaitResult(op, input) ELSE NoRet
           /\ exit_cause' = IF got THEN "none" ELSE "wait_" \o input
           /\ frames' = IF got THEN FramesAfterListen(frames, streams, lstream)
                        ELSE frames
  /\ UNCHANGED <<is_recording, stream, files, wav, op, consecutive_chunks,
                 capVars, duration, thrVars, tail, callOpened, finished,
                 supply, convVars, init_failures, clsVars, faulted>>

ApiWaitForSound ==
  /\ pc = "idle"
  /\ \E k \in ChunkChoices : wait_for_sound_open(k)
  /\ op' = "wait_for_sound"
  /\ wav' = NoWav
  /\ duration' = 0
  /\ NoCapture
  /\ UNCHANGED <<recVars, files, thrVars, finished, supply, convVars,
                 init_failures, clsVars, faulted>>

(***************************************************************************)
(* VoiceRecorder.record_until_silence                                      *)
(***************************************************************************)
\* mutant: silence is counted before any speech was recorded
SilenceAfter_ungated(silence, has_speech, speaking) ==
  IF speaking THEN 0 ELSE silence + chunk_duration

\* mutant: the counter is not reset by a speech frame
SilenceAfter_no_reset(silence, has_speech, speaking) ==
  IF has_speech /\ ~speaking THEN silence + chunk_duration ELSE silence

\* consecutive_silence after one classified frame
SilenceAfter(silence, has_speech, speaking) ==
  IF speaking THEN 0
  ELSE IF has_speech THEN silence + chunk_duration
  ELSE silence

\* has_recorded_speech after one classified frame
SpeechSeenAfter(has_speech, speaking) ==
  has_speech \/ speaking

\* mutant: the threshold is tested before the frame's duration is added
SilenceStops_late(silence, has_speech, speaking, limit) ==
  ~speaking /\ has_speech /\ silence >= limit

\* if consecutive_silence >= silence_duration: break
SilenceStops(silence, has_speech, speaking, limit) ==
  ~speaking /\ has_speech /\ SilenceAfter(silence, has_speech, speaking) >= limit

\* the call: wait_for_sound(sound_threshold=silence_threshold * 2) when asked
record_until_silence_call ==
  /\ pc = "idle"
  /\ op' = "record_until_silence"
  /\ \E limit \in SilenceDurations : silence_duration' = limit
  /\ consecutive_silence' = 0
  /\ has_recorded_speech' = FALSE
  /\ tail' = 0
  /\ exit_cause' = "none"
  /\ duration' = 0
  /\ wav' = NoWav
  /\ \/ wait_for_sound_open(default_consecutive_chunks)
     \/ \* wait_for_sound=False
        /\ pc' = "rus_start"
        /\ ret' = NoRet
        /\ callOpened' = {}
        /\ heard' = <<>>
        /\ lstream' = 0
        /\ consecutive_chunks' = 0
        /\ speech_count' = 0
        /\ UNCHANGED streams
  /\ UNCHANGED <<recVars, files, thrVars, finished, supply, convVars,
                 init_failures, clsVars, faulted>>

\* self.start_recording() and the locals of lines 314-317
record_until_silence_start ==
  /\ pc = "rus_start"
  /\ \E outcome \in StartOutcomes :
       /\ start_recording(outcome)
       /\ pc' = IF outcome = "opened" THEN "capturing" ELSE "idle"
       /\ ret' = IF outcome = "opened" THEN NoRet ELSE StartResult(outcome)
       /\ callOpened' = IF outcome = "opened"
                          THEN callOpened \cup {Len(streams) + 1}
                          ELSE callOpened
  /\ consecutive_silence' = 0
  /\ has_recorded_speech' = FALSE
  /\ UNCHANGED <<files, wav, op, waitVars, silence_duration, duration, thrVars,
                 heard, tail, exit_cause, finished, supply, convVars,
                 clsVars, faulted>>

CaptureInputs ==
  {"error", "interrupt"}
    \cup (IF CanDeliver(streams, stream, supply) THEN {"speech", "silence"}
          ELSE {})

\* mutant: a failed read is retried instead of ending the loop
LeavesLoop_retries(input, stops) ==
  stops \/ input = "interrupt"

\* whether the iteration leaves the loop: the `break` on enough silence, the
\* `break` of `except Exception`, and the KeyboardInterrupt caught outside it
LeavesLoop(input, stops) ==
  stops \/ input \in {"error", "interrupt"}

\* one iteration of `while self.is_recording`, and `return
\* self.stop_recording()` when the iteration leaves the loop
record_until_silence_frame ==
  /\ pc = "capturing"
  /\ is_recording /\ stream # 0
  /\ \E input \in CaptureInputs :
       LET got == input \in {"speech", "silence"}
           speaking == input = "speech"
           fr == IF got THEN FramesAfterRead(frames, streams, stream) ELSE frames
           ss == IF got THEN Delivered(streams, stream) ELSE streams
           stops == got /\ SilenceStops(consecutive_silence, has_recorded_speech,
                                        speaking, silence_duration)
           leaves == LeavesLoop(input, stops)
       IN  /\ consecutive_silence' =
                IF got THEN SilenceAfter(consecutive_silence, has_recorded_speech,
                                         speaking)
                ELSE consecutive_silence
           /\ has_recorded_speech' =
                IF got THEN SpeechSeenAfter(has_recorded_speech, speaking)
                ELSE has_recorded_speech
           /\ tail' = IF ~got THEN tail ELSE IF speaking THEN 0 ELSE tail + 1
           /\ exit_cause' = IF stops THEN "silence"
                            ELSE IF ~got THEN input ELSE "none"
           /\ IF leaves
                THEN /\ \E writeOK \in BOOLEAN : stop_recording(fr, ss, writeOK)
                     /\ pc' = "idle"
                ELSE /\ frames' = fr
                     /\ streams' = ss
                     /\ pc' = "capturing"
                     /\ UNCHANGED <<is_recording, stream, files, wav, ret,
                                    finished, faulted>>
  /\ UNCHANGED <<op, waitVars, silence_duration, duration, thrVars, heard,
                 callOpened, supply, convVars, init_failures, clsVars>>

(***************************************************************************)
(* VoiceRecorder.transcribe_audio and VoiceRecorder.record_and_transcribe  *)
(***************************************************************************)
\* os.path.exists(audio_path), then the Whisper call
TranscribeOutcomes(fs, path) ==
  IF fs[path] = "deleted" THEN {"missing"} ELSE {"text", "empty", "failed"}

TranscribeResult(outcome) ==
  IF outcome \in {"text", "empty"} THEN Ret(outcome) ELSE Ret("RuntimeError")

\* os.unlink(audio_path)
Unlink(fs, path) ==
  [fs EXCEPT ![path] = "deleted"]

\* self.start_recording() at line 409
record_and_transcribe_call ==
  /\ pc = "idle"
  /\ op' = "record_and_transcribe"
  /\ \E d \in {0, 1} : duration' = d
  /\ \E outcome \in StartOutcomes :
       /\ start_recording(outcome)
       /\ pc' = IF outcome = "opened" THEN "rat_loop" ELSE "idle"
       /\ ret' = IF outcome = "opened" THEN NoRet ELSE StartResult(outcome)
       /\ callOpened' = IF outcome = "opened" THEN {Len(streams) + 1} ELSE {}
  /\ wav' = NoWav
  /\ NoWait /\ NoCapture
  /\ UNCHANGED <<files, thrVars, finished, supply, convVars, clsVars, faulted>>

\* one iteration of either loop: self.record_chunk(); time.sleep(0.01)
record_and_transcribe_chunk ==
  /\ pc = "rat_loop"
  /\ is_recording
  /\ \/ /\ \E input \in ChunkInputs : record_chunk(input)
        /\ UNCHANGED <<pc, ret>>
     \/ \* KeyboardInterrupt: nothing in record_and_transcribe catches it
        /\ pc' = "idle"
        /\ ret' = Ret("KeyboardInterrupt")
        /\ UNCHANGED <<recVars, streams, faulted>>
  /\ UNCHANGED <<files, wav, op, waitVars, capVars, duration, thrVars,
                 histVars, supply, convVars, init_failures, clsVars>>

\* time.time() - start_time >= duration: audio_path = self.stop_recording()
record_and_transcribe_stop ==
  /\ pc = "rat_loop"
  /\ duration # 0
  /\ is_recording
  /\ \E writeOK \in BOOLEAN :
       /\ stop_recording(frames, streams, writeOK)
       /\ pc' = IF writeOK THEN "rat_transcribe" ELSE "idle"
  /\ UNCHANGED <<op, waitVars, capVars, duration, thrVars, heard, tail,
                 exit_cause, callOpened, supply, convVars,
                 init_failures, clsVars>>

\* self.transcribe_audio(audio_path), finally: os.unlink(audio_path)
record_and_transcribe_transcribe ==
  /\ pc = "rat_transcribe"
  /\ \E outcome \in TranscribeOutcomes(files, ret.file) :
       ret' = TranscribeResult(outcome)
  /\ files' = Unlink(files, ret.file)
  /\ pc' = "idle"
  /\ UNCHANGED <<recVars, streams, wav, op, waitVars, capVars, duration,
                 thrVars, histVars, supply, convVars,
                 init_failures, clsVars, faulted>>

(***************************************************************************)
(* Specification: a client of one VoiceRecorder calling any operation.     *)
(***************************************************************************)
Next ==
  \/ ApiStartRecording
  \/ ApiStopRecording
  \/ ApiRecordChunk
  \/ ApiWaitForSound
  \/ wait_for_sound_frame
  \/ record_until_silence_call
  \/ record_until_silence_start
  \/ record_until_silence_frame
  \/ record_and_transcribe_call
  \/ record_and_transcribe_chunk
  \/ record_and_transcribe_stop
  \/ record_and_transcribe_transcribe

Spec == Init /\ [][Next]_vars

(***************************************************************************)
(* Specification: a client that only calls record_until_silence, with      *)
(* enough frames for the default silence_duration to run out.              *)
(***************************************************************************)
InitGate ==
  /\ Fresh
  /\ stored = NoStore
  /\ pc = "idle"
  /\ supply = GateReads

NextGate ==
  \/ record_until_silence_call
  \/ wait_for_sound_frame
  \/ record_until_silence_start
  \/ record_until_silence_frame

SpecGate == InitGate /\ [][NextGate]_vars

(***************************************************************************)
(* record_until_enter: the main thread and the thread running record_loop. *)
(* stop_recording is cut where the record thread can run in between: after *)
(* the flag is cleared, after the stream is released, after the file is    *)
(* written.                                                                *)
(***************************************************************************)
\* recorder = VoiceRecorder(model_size=model_size)
record_until_enter_call ==
  /\ pc = "idle"
  /\ tpc \in {"none", "done"}
  /\ pc' = "enter_start"
  /\ op' = "record_until_enter"
  /\ is_recording' = FALSE
  /\ frames' = <<>>
  /\ stream' = 0
  /\ ret' = NoRet
  /\ wav' = NoWav
  /\ callOpened' = {}
  /\ tpc' = "none"
  /\ tdata' = <<>>
  /\ duration' = 0
  /\ NoWait /\ NoCapture
  /\ UNCHANGED <<streams, files, finished, supply, convVars,
                 init_failures, clsVars, faulted>>

\* recording_thread runs start_recording (an exception ends that thread
\* only) and is joined; record_thread.start()
record_until_enter_start ==
  /\ pc = "enter_start"
  /\ \E outcome \in StartOutcomes :
       /\ start_recording(outcome)
       /\ callOpened' = IF outcome = "opened" THEN {Len(streams) + 1} ELSE {}
  /\ pc' = "enter_input"
  /\ tpc' = "test"
  /\ UNCHANGED <<files, wav, op, ret, waitVars, capVars, duration, tdata,
                 heard, tail, exit_cause, finished, supply, convVars,
                 clsVars, faulted>>

\* input() returns or raises KeyboardInterrupt; stop_recording up to
\* self.is_recording = False
record_until_enter_input ==
  /\ pc = "enter_input"
  /\ IF is_recording
       THEN /\ is_recording' = FALSE
            /\ pc' = "enter_close"
            /\ UNCHANGED ret
       ELSE /\ ret' = Ret("RuntimeError")
            /\ pc' = "idle"
            /\ UNCHANGED is_recording
  /\ UNCHANGED <<frames, stream, devVars, op, waitVars, capVars, duration,
                 thrVars, histVars, supply, convVars,
                 init_failures, clsVars, faulted>>

\* stop_recording: stop_stream(), close(), terminate()
record_until_enter_close ==
  /\ pc = "enter_close"
  /\ streams' = StopStreams(streams, stream)
  /\ faulted' = faulted \ {stream}
  /\ pc' = "enter_write"
  /\ UNCHANGED <<recVars, files, wav, op, ret, waitVars, capVars, duration,
                 thrVars, histVars, supply, convVars, init_failures, clsVars>>

\* stop_recording: the temporary file and the wave.open block
record_until_enter_write ==
  /\ pc = "enter_write"
  /\ \E writeOK \in BOOLEAN :
       /\ files' = FilesAfterStop(files, writeOK)
       /\ wav' = IF writeOK THEN WaveWrite(frames) ELSE NoWav
       /\ ret' = StopResult(files, writeOK)
       /\ pc' = IF writeOK THEN "enter_join" ELSE "idle"
  /\ finished' = finished \cup ({stream} \ {0})
  /\ UNCHANGED <<recVars, streams, op, waitVars, capVars, duration, thrVars,
                 heard, tail, exit_cause, callOpened, supply, convVars,
                 init_failures, clsVars, faulted>>

\* the record thread is blocked in a read of a stream that was closed
ThreadBlocked ==
  tpc = "reading" /\ stream # 0 /\ ~streams[stream].open

\* record_thread.join(timeout=5): the thread has ended, or it is blocked and
\* the five seconds pass
record_until_enter_join ==
  /\ pc = "enter_join"
  /\ tpc = "done" \/ ThreadBlocked
  /\ pc' = "enter_transcribe"
  /\ UNCHANGED <<recVars, devVars, op, ret, waitVars, capVars, duration,
                 thrVars, histVars, supply, convVars,
                 init_failures, clsVars, faulted>>

\* recorder.transcribe_audio(audio_path), finally: os.unlink(audio_path)
record_until_enter_transcribe ==
  /\ pc = "enter_transcribe"
  /\ \E outcome \in TranscribeOutcomes(files, ret.file) :
       ret' = TranscribeResult(outcome)
  /\ files' = Unlink(files, ret.file)
  /\ pc' = "idle"
  /\ UNCHANGED <<recVars, streams, wav, op, waitVars, capVars, duration,
                 thrVars, histVars, supply, convVars,
                 init_failures, clsVars, faulted>>

\* record_loop: `while recorder.is_recording`, and the test that opens
\* record_chunk
record_loop_test ==
  /\ tpc = "test"
  /\ tpc' = IF ~is_recording THEN "done"
             ELSE IF stream # 0 THEN "reading" ELSE "test"
  /\ UNCHANGED <<recVars, devVars, ctlVars, waitVars, capVars, duration,
                 tdata, histVars, supply, convVars,
                 init_failures, clsVars, faulted>>

\* what self.stream.read can do: on an open stream return a frame or raise;
\* on a stream the main thread has closed raise, or not return (no step)
ThreadReadOutcomes ==
  {"error"} \cup (IF CanDeliver(streams, stream, supply) THEN {"data"} ELSE {})

\* record_chunk in the record thread: data = self.stream.read(...)
record_loop_read ==
  /\ tpc = "reading"
  /\ \E outcome \in ThreadReadOutcomes :
       IF outcome = "data"
         THEN /\ tdata' = <<NextFrame(streams, stream)>>
              /\ streams' = Delivered(streams, stream)
              /\ tpc' = "append"
              /\ UNCHANGED faulted
         ELSE /\ tpc' = "test"
              /\ faulted' = faulted \cup {stream}
              /\ UNCHANGED <<tdata, streams>>
  /\ UNCHANGED <<recVars, files, wav, ctlVars, waitVars, capVars, duration,
                 histVars, supply, convVars, init_failures, clsVars>>

\* record_chunk in the record thread: self.frames.append(data); the sleep
record_loop_append ==
  /\ tpc = "append"
  /\ frames' = Append(frames, tdata[1])
  /\ tdata' = <<>>
  /\ tpc' = "test"
  /\ UNCHANGED <<is_recording, stream, devVars, ctlVars, waitVars, capVars,
                 duration, histVars, supply, convVars,
                 init_failures, clsVars, faulted>>

(***************************************************************************)
(* Specification: a client that only calls record_until_enter.             *)
(***************************************************************************)
InitEnter ==
  /\ Fresh
  /\ stored = NoStore
  /\ pc = "idle"
  /\ supply = MaxReads

NextEnter ==
  \/ record_until_enter_call
  \/ record_until_enter_start
  \/ record_until_enter_input
  \/ record_until_enter_close
  \/ record_until_enter_write
  \/ record_until_enter_join
  \/ record_until_enter_transcribe
  \/ record_loop_test
  \/ record_loop_read
  \/ record_loop_append

SpecEnter == InitEnter /\ [][NextEnter]_vars

(***************************************************************************)
(* ConversationManager (conversation_manager.py) and the saved state of    *)
(* conversation_cli.py.  A question is named by a number; an answer is the *)
(* empty string `(response.content or "").strip()` can give (0), or a text *)
(* (1).                                                                    *)
(***************************************************************************)
Messages == 1..MaxMessages
Answers == {0, 1}

\* the two entries ask appends (lines 95-96)
Exchange(q, a) ==
  << <<"user", q>>, <<"assistant", a>> >>

\* "failed": self.llm.invoke (or the _log before it) raises; "answered":
\* ask returns; "answered_unlogged": the _log of line 99 raises
AskOutcomes(h) ==
  {"log_failed", "failed"}
    \cup (IF Len(h) < 2 * MaxExchanges THEN {"answered", "answered_unlogged"}
          ELSE {})

\* mutant: the question is put in the history before the model is called
HistoryAfterAsk_keeps_question(h, q, outcome, a) ==
  IF outcome = "log_failed" THEN h
  ELSE IF outcome = "failed" THEN Append(h, <<"user", q>>)
  ELSE h \o Exchange(q, a)

\* self.conversation_history when ask(q) has ended
HistoryAfterAsk(h, q, outcome, a) ==
  IF outcome \in {"log_failed", "failed"} THEN h ELSE h \o Exchange(q, a)

\* what ask(q) returns or raises: the answer, the exception of llm.invoke,
\* or the OSError of _log
AskResult(outcome) ==
  IF outcome = "answered" THEN Ret("answer")
  ELSE IF outcome = "failed" THEN Ret("Exception")
  ELSE Ret("OSError")

\* manager.ask(user_message)
manager_ask ==
  /\ pc = "idle"
  /\ \E q \in Messages, a \in Answers :
       \E outcome \in AskOutcomes(conversation_history) :
         /\ conversation_history' =
              HistoryAfterAsk(conversation_history, q, outcome, a)
         /\ ret' = AskResult(outcome)
  /\ op' = "ask"
  /\ UNCHANGED <<recVars, devVars, pc, waitVars, capVars, duration, thrVars,
                 histVars, supply, turn_number, stored, cliVars, inVars,
                 init_failures, clsVars, faulted>>

\* manager.clear_history()
manager_clear_history ==
  /\ pc = "idle"
  /\ conversation_history' = <<>>
  /\ \E logged \in BOOLEAN :
       ret' = IF logged THEN Ret("None") ELSE Ret("OSError")
  /\ op' = "clear_history"
  /\ UNCHANGED <<recVars, devVars, pc, waitVars, capVars, duration, thrVars,
                 histVars, supply, turn_number, stored, cliVars, inVars,
                 init_failures, clsVars, faulted>>

(***************************************************************************)
(* Specification: a client of one ConversationManager.                     *)
(***************************************************************************)
InitConversation ==
  /\ Fresh
  /\ stored = NoStore
  /\ pc = "idle"
  /\ supply = MaxReads

NextConversation ==
  \/ manager_ask
  \/ manager_clear_history

SpecConversation == InitConversation /\ [][NextConversation]_vars

(***************************************************************************)
(* Processes sharing conversation.pkl: `conversation_cli.py ask` commands  *)
(* and live_conversation.py.  Each process loads the file into a manager   *)
(* of its own, asks, and writes the manager back; nothing orders the       *)
(* processes.  A process is at "start" (no manager yet), "loaded",         *)
(* "asked" (ask returned, save_conversation not yet called) or "done".     *)
(* `ret` belongs to the one client of the other specifications and is left *)
(* alone here.                                                             *)
(***************************************************************************)
\* load_conversation(): the pickled manager, or a new one when there is no
\* file or it cannot be loaded
LoadOutcomes(st) ==
  IF st.exists THEN {"loaded", "load_failed"} ELSE {"new"}

LoadedHistory(st, outcome) ==
  IF outcome = "loaded" THEN st.history ELSE <<>>

\* manager = load_conversation()   (conversation_cli.py line 45,
\* live_conversation.py line 51)
cli_load_conversation(p) ==
  /\ cli_pc[p] = "start"
  /\ \E outcome \in LoadOutcomes(stored) :
       cli_history' = [cli_history EXCEPT ![p] = LoadedHistory(stored, outcome)]
  /\ cli_pc' = [cli_pc EXCEPT ![p] = "loaded"]
  /\ op' = "cli"
  /\ UNCHANGED <<recVars, devVars, pc, ret, waitVars, capVars, duration,
                 thrVars, histVars, supply, conversation_history, turn_number,
                 stored, asks, completed, inVars, init_failures, clsVars,
                 faulted>>

\* where the process goes on after manager.ask: to save_conversation, or out
\* with the exception (the command ends; live mode takes `continue`)
CliAfterAsk(outcome) ==
  IF outcome = "answered" THEN "asked" ELSE "done"

\* answer = manager.ask(question)   (conversation_cli.py line 46,
\* live_conversation.py line 118)
cli_manager_ask(p) ==
  /\ cli_pc[p] = "loaded"
  /\ asks < MaxAsks
  /\ asks' = asks + 1
  /\ \E q \in Messages, a \in Answers :
       \E outcome \in AskOutcomes(cli_history[p]) :
         /\ cli_history' = [cli_history EXCEPT
                              ![p] = HistoryAfterAsk(@, q, outcome, a)]
         /\ cli_pc' = [cli_pc EXCEPT ![p] = CliAfterAsk(outcome)]
  /\ op' = "cli"
  /\ UNCHANGED <<recVars, devVars, pc, ret, waitVars, capVars, duration,
                 thrVars, histVars, supply, conversation_history, turn_number,
                 stored, completed, inVars, init_failures, clsVars, faulted>>

\* what conversation.pkl holds after save_conversation
\* of a manager with history h: the `with open(..., "wb")` block, or the
\* exception it raised, reported and dropped (lines 36-40)
StoredAfterSave(st, h, saveOK) ==
  IF saveOK THEN StoreOf(h) ELSE st

\* save_conversation(manager); print(answer)   (conversation_cli.py lines
\* 47-48, live_conversation.py lines 119-135)
cli_save_conversation(p) ==
  /\ cli_pc[p] = "asked"
  /\ \E saveOK \in BOOLEAN :
       stored' = StoredAfterSave(stored, cli_history[p], saveOK)
  /\ cli_pc' = [cli_pc EXCEPT ![p] = "done"]
  /\ completed' = completed + 1
  /\ op' = "cli"
  /\ UNCHANGED <<recVars, devVars, pc, ret, waitVars, capVars, duration,
                 thrVars, histVars, supply, conversation_history, turn_number,
                 cli_history, asks, inVars, init_failures, clsVars, faulted>>

\* the next iteration of live mode's `while True`: the process keeps its
\* manager (live_conversation.py lines 65, 124, 135)
cli_next_turn(p) ==
  /\ cli_pc[p] = "done"
  /\ cli_pc' = [cli_pc EXCEPT ![p] = "loaded"]
  /\ op' = "cli"
  /\ UNCHANGED <<recVars, devVars, pc, ret, waitVars, capVars, duration,
                 thrVars, histVars, supply, conversation_history, turn_number,
                 stored, cli_history, asks, completed, inVars, init_failures,
                 clsVars, faulted>>

InitCli ==
  /\ Fresh
  /\ stored = NoStore
  /\ pc = "idle"
  /\ supply = MaxReads

NextCli ==
  \/ \E p \in Procs : cli_load_conversation(p)
  \/ \E p \in Procs : cli_manager_ask(p)
  \/ \E p \in Procs : cli_save_conversation(p)
  \/ \E p \in Procs : cli_next_turn(p)

SpecCli == InitCli /\ [][NextCli]_vars

(***************************************************************************)
(* scripts/converse.py: the interactive loop.  One action is one iteration *)
(* of `while True`: the prompt, the dispatch on the line, and the call the *)
(* line leads to.                                                          *)
(***************************************************************************)
CommandWords == {"exit", "quit", "q", "clear", "history", "save", "help"}
\* first words typed after a "/": the commands, a word that is no command,
\* and nothing
SlashWords == CommandWords \cup {"foo", ""}
\* first words of a line that is no command
TextWords == {"hello", "exit"}

\* ways of typing a first word: as it is, in upper case with white space
\* around the line, and with an argument after it
Typings ==
  {[pad |-> FALSE, upper |-> FALSE, rest |-> FALSE],
   [pad |-> TRUE, upper |-> TRUE, rest |-> FALSE],
   [pad |-> FALSE, upper |-> FALSE, rest |-> TRUE]}

Line(slash, w, t) ==
  [pad |-> t.pad, slash |-> slash, word |-> w,
   upper |-> (t.upper /\ w # ""), rest |-> t.rest]

Lines ==
  {Line(FALSE, "", t) : t \in {x \in Typings : ~x.rest}}
    \cup {Line(TRUE, w, t) : w \in SlashWords, t \in Typings}
    \cup {Line(FALSE, w, t) : w \in TextWords,
                              t \in {x \in Typings : ~x.rest}}

\* input("You: "): a line, or the exception of a closed stdin or of Ctrl+C
InputOutcomes ==
  {[kind |-> "line", line |-> l] : l \in Lines}
    \cup {[kind |-> k, line |-> NoLine] :
            k \in {"EOFError", "KeyboardInterrupt"}}

\* mutant: the line is used as it was typed
strip_nothing(l) ==
  l

\* str.strip()
strip(l) ==
  [l EXCEPT !.pad = FALSE]

\* user_input.startswith("/")
startswith_slash(l) ==
  ~l.pad /\ l.slash

\* str.lower()
lower(c) ==
  [c EXCEPT !.upper = FALSE]

\* command = command_parts[0].lower()   (lines 74-75)
command(l) ==
  lower([slash |-> l.slash, word |-> l.word, upper |-> l.upper])

\* the command "/w" as the code spells it
Slash(w) ==
  [slash |-> TRUE, word |-> w, upper |-> FALSE]

\* the branch of lines 69-114 the stripped line takes
Branch(user_input) ==
  IF user_input = NoLine THEN "empty"
  ELSE IF ~startswith_slash(user_input) THEN "ask"
  ELSE IF command(user_input) \in {Slash("exit"), Slash("quit"), Slash("q")}
    THEN "exit"
  ELSE IF command(user_input) = Slash("clear") THEN "clear"
  ELSE IF command(user_input) = Slash("history") THEN "history"
  ELSE IF command(user_input) = Slash("save") THEN "save"
  ELSE IF command(user_input) = Slash("help") THEN "help"
  ELSE "unknown"

\* how the call of the branch can end: manager.ask as in AskOutcomes or with
\* Ctrl+C; clear_history and save_conversation with or without an OSError
BranchOutcomes(branch, h) ==
  CASE branch = "ask" -> AskOutcomes(h) \cup {"interrupt"}
    [] branch \in {"clear", "save"} -> {"done", "OSError"}
    [] OTHER -> {"done"}

\* the loop is left: `break`, or an exception no handler of main catches
ConverseEnds(branch, outcome) ==
  \/ branch \in {"break", "exit"}
  \/ outcome \in {"interrupt", "OSError"}

ConverseResult(branch, outcome, kind) ==
  CASE branch = "break" -> Ret(kind)
    [] outcome = "interrupt" -> Ret("KeyboardInterrupt")
    [] outcome = "OSError" -> Ret("OSError")
    [] branch = "ask" -> AskResult(outcome)
    [] OTHER -> Ret("None")

\* the messages self.llm.invoke got: none when _log raised before it
SentByAsk(q, outcome) ==
  IF outcome = "log_failed" THEN <<>> ELSE <<q>>

\* lines 57-118
converse_turn ==
  /\ pc = "converse_input"
  /\ \E read \in InputOutcomes :
       LET user_input == strip(read.line)
           branch == IF read.kind = "line" THEN Branch(user_input)
                     ELSE "break"
       IN  \E outcome \in BranchOutcomes(branch, conversation_history),
              a \in IF branch = "ask" THEN Answers ELSE {0} :
             LET asked == IF outcome = "interrupt" THEN "failed" ELSE outcome
             IN  /\ branch = "ask" => asks < MaxAsks
                 /\ typed' = read.line
                 /\ asks' = IF branch = "ask" THEN asks + 1 ELSE asks
                 /\ sent' = IF branch = "ask"
                            THEN SentByAsk(user_input, outcome) ELSE <<>>
                 /\ conversation_history' =
                      CASE branch = "ask" ->
                             HistoryAfterAsk(conversation_history, user_input,
                                             asked, a)
                        [] branch = "clear" -> <<>>
                        [] OTHER -> conversation_history
                 /\ ret' = ConverseResult(branch, outcome, read.kind)
                 /\ pc' = IF ConverseEnds(branch, outcome)
                           THEN "converse_exit" ELSE "converse_input"
  /\ op' = "converse"
  /\ UNCHANGED <<recVars, devVars, waitVars, capVars, duration, thrVars,
                 histVars, supply, turn_number, stored, cli_pc, cli_history,
                 completed, init_failures, clsVars, faulted>>

InitConverse ==
  /\ Fresh
  /\ stored = NoStore
  /\ pc = "converse_input"
  /\ supply = MaxReads

NextConverse ==
  \/ converse_turn

SpecConverse == InitConverse /\ [][NextConverse]_vars

(***************************************************************************)
(* live_conversation.main: the turn loop.  pc = "idle" with op = "live" is *)
(* the top of `while True`; the recorder's actions run the call of         *)
(* record_until_silence and come back to pc = "idle".                      *)
(***************************************************************************)
\* recorder = VoiceRecorder(model_size="base"); manager = load_conversation()
\* lines 48-62: manager = load_conversation(); turn_number = turn_count + 1
live_main ==
  /\ pc = "idle"
  /\ op = "none"
  /\ op' = "live"
  /\ \E outcome \in LoadOutcomes(stored) :
       /\ conversation_history' = LoadedHistory(stored, outcome)
       /\ turn_number' = Len(LoadedHistory(stored, outcome)) \div 2 + 1
  /\ UNCHANGED <<recVars, devVars, pc, ret, waitVars, capVars, duration,
                 thrVars, histVars, supply, stored, cliVars, inVars,
                 init_failures, clsVars, faulted>>

\* recorder.record_until_silence(silence_threshold=0.01, silence_duration=2.0)
live_record ==
  /\ op = "live"
  /\ record_until_silence_call
  /\ silence_duration' = default_silence_duration
  /\ consecutive_chunks' = default_consecutive_chunks

\* where main goes on when record_until_silence has ended: `break` on
\* KeyboardInterrupt, `continue` on any other exception, else transcribe
LiveAfterRecord(kind) ==
  CASE kind = "KeyboardInterrupt" -> [pc |-> "live_exit", op |-> "live"]
    [] kind = "path" -> [pc |-> "live_transcribe", op |-> "live_turn"]
    [] OTHER -> [pc |-> "idle", op |-> "live"]

live_recorded ==
  /\ pc = "idle"
  /\ op = "record_until_silence"
  /\ pc' = LiveAfterRecord(ret.kind).pc
  /\ op' = LiveAfterRecord(ret.kind).op
  /\ UNCHANGED <<recVars, devVars, ret, waitVars, capVars, duration, thrVars,
                 histVars, supply, convVars, init_failures, clsVars, faulted>>

\* where main goes on after recorder.transcribe_audio(audio_path): an empty
\* text and a failure `continue`, KeyboardInterrupt reaches line 139
LiveAfterTranscribe(outcome) ==
  CASE outcome = "text" -> [pc |-> "live_ask", op |-> "live_turn"]
    [] outcome = "interrupt" -> [pc |-> "live_exit", op |-> "live"]
    [] OTHER -> [pc |-> "idle", op |-> "live"]

\* lines 88-109; the `finally` unlinks the file on every way out
live_transcribe ==
  /\ pc = "live_transcribe"
  /\ \E outcome \in TranscribeOutcomes(files, ret.file) \cup {"interrupt"} :
       /\ ret' = IF outcome = "interrupt" THEN Ret("KeyboardInterrupt")
                 ELSE TranscribeResult(outcome)
       /\ pc' = LiveAfterTranscribe(outcome).pc
       /\ op' = LiveAfterTranscribe(outcome).op
       /\ exit_cause' = IF outcome = "interrupt" THEN "transcribe_interrupt"
                        ELSE exit_cause
  /\ files' = Unlink(files, ret.file)
  /\ UNCHANGED <<recVars, streams, wav, waitVars, capVars, duration, thrVars,
                 heard, tail, callOpened, finished, supply, convVars,
                 init_failures, clsVars, faulted>>

\* lines 117-135: manager.ask(question); save_conversation(manager);
\* turn_number += 1, or `continue` on an exception, or KeyboardInterrupt
\* mutant: the turn is counted whether or not the model answered
TurnAfterAsk_always(n, outcome) ==
  IF outcome = "interrupt" THEN n ELSE n + 1

\* turn_number += 1 at line 135, reached when neither call raised
TurnAfterAsk(n, outcome) ==
  IF outcome = "answered" THEN n + 1 ELSE n

\* save_conversation(manager), reached when ask returned: the file is
\* rewritten, or an exception is caught and reported (lines 36-40)
StoredAfterAsk(st, h, outcome, saveOK) ==
  IF outcome = "answered" /\ saveOK THEN StoreOf(h) ELSE st

\* question = recorder.transcribe_audio(audio_path) at line 89: the text of
\* a transcription that is not empty
question == 1

live_ask ==
  /\ pc = "live_ask"
  /\ \E a \in Answers, saveOK \in BOOLEAN :
       \E outcome \in AskOutcomes(conversation_history) \cup {"interrupt"} :
         LET asked == IF outcome = "interrupt" THEN "failed" ELSE outcome
             h == HistoryAfterAsk(conversation_history, question, asked, a)
         IN  /\ conversation_history' = h
             /\ stored' = StoredAfterAsk(stored, h, outcome, saveOK)
             /\ turn_number' = TurnAfterAsk(turn_number, outcome)
             /\ ret' = IF outcome = "interrupt" THEN Ret("KeyboardInterrupt")
                       ELSE AskResult(outcome)
             /\ pc' = IF outcome = "interrupt" THEN "live_exit" ELSE "idle"
             /\ exit_cause' = IF outcome = "interrupt" THEN "ask_interrupt"
                              ELSE exit_cause
  /\ op' = "live"
  /\ UNCHANGED <<recVars, devVars, waitVars, capVars, duration, thrVars,
                 heard, tail, callOpened, finished, supply, cliVars, inVars,
                 init_failures, clsVars, faulted>>

(***************************************************************************)
(* Specification: live conversation mode.                                  *)
(***************************************************************************)
\* conversation.pkl before the script starts: absent, or left by an earlier
\* run that saved one exchange
StoredAtStart == {NoStore, StoreOf(Exchange(question, 0))}

InitLive ==
  /\ Fresh
  /\ stored \in StoredAtStart
  /\ pc = "idle"
  /\ supply = GateReads

NextLive ==
  \/ live_main
  \/ live_record
  \/ wait_for_sound_frame
  \/ record_until_silence_start
  \/ record_until_silence_frame
  \/ live_recorded
  \/ live_transcribe
  \/ live_ask

SpecLive == InitLive /\ [][NextLive]_vars

(***************************************************************************)
(* Specification: calls of is_speech on any frame, one after another.      *)
(***************************************************************************)
InitClassify ==
  /\ Fresh
  /\ stored = NoStore
  /\ pc = "idle"
  /\ supply = MaxReads

NextClassify ==
  \/ is_speech_call
  \/ is_speech_signal

SpecClassify == InitClassify /\ [][NextClassify]_vars

(***************************************************************************)
(* Properties.                                                             *)
(***************************************************************************)
\* the session of record_until_silence, as the states of its capture loop
Capturing == op = "record_until_silence" /\ pc = "capturing"
AwaitingSpeech == op = "record_until_silence" /\ pc = "listening"
Ended == op = "record_until_silence" /\ pc = "idle"

\* speech was captured before the trailing run of non-speech frames
SpeechBeforeTail == tail < Len(frames)

\* C1: a capture session ends by silence only after speech was captured and
\* the non-speech frames that followed it without a break last at least
\* silence_duration; with the default 2 s and 64 ms frames the session is
\* still capturing after 30 such frames and has ended after 32.
C1_SilenceStopsOnlyAfterSpeech ==
  /\ exit_cause = "silence" =>
       /\ SpeechBeforeTail
       /\ tail * chunk_duration >= silence_duration
  /\ (exit_cause = "silence" /\ silence_duration = default_silence_duration) =>
       tail > 30
  /\ (Capturing /\ SpeechBeforeTail
        /\ silence_duration = default_silence_duration) => tail < 32

\* a session with the default duration ended by silence, its final run of
\* non-speech frames preceded by more than one captured frame
C1_Witness ==
  /\ Ended /\ exit_cause = "silence"
  /\ silence_duration = default_silence_duration
  /\ tail = 32
  /\ Len(frames) > tail + 1

\* the length of the run of speech verdicts that ends the sequence h
TrailingSpeech(h) ==
  CHOOSE k \in 0..Len(h) :
    /\ \A i \in (Len(h) - k + 1)..Len(h) : h[i]
    /\ k < Len(h) => ~h[Len(h) - k]

\* wait_for_sound has just reported sound
GateOpened ==
  \/ op = "wait_for_sound" /\ pc = "idle" /\ ret.kind = "True"
  \/ op = "record_until_silence" /\ pc = "rus_start" /\ consecutive_chunks > 0

\* C2: wait_for_sound reports sound only when the last K frames it read were
\* all speech, K = consecutive_chunks, and no earlier frame completed such a
\* run; while it listens its counter is the length of the current run of
\* speech frames, so a non-speech frame after K-1 speech frames leaves it
\* listening with the counter at zero.
C2_GateNeedsConsecutiveSpeech ==
  /\ pc = "listening" =>
       /\ speech_count = TrailingSpeech(heard)
       /\ speech_count < consecutive_chunks
  /\ GateOpened =>
       /\ TrailingSpeech(heard) = consecutive_chunks
       /\ \A i \in 1..(Len(heard) - 1) :
            TrailingSpeech(SubSeq(heard, 1, i)) < consecutive_chunks

\* the gate opened with K = 3 after a run of two speech frames was broken
C2_Witness ==
  /\ GateOpened
  /\ consecutive_chunks = 3
  /\ heard = <<TRUE, TRUE, FALSE, TRUE, TRUE, TRUE>>

\* the n frames a session has read from stream sid, in capture order
SessionFrames(sid, n) == [i \in 1..n |-> <<sid, i>>]

\* the temporary file of the last stop_recording was written to its end
Saved == files # <<>> /\ files[Len(files)] = "written"

\* C3: a user interrupt that arrives while record_until_silence captures,
\* with n >= 1 frames buffered, ends the call with the path of a file that
\* holds exactly those n frames in capture order (given that the file can be
\* written): the call does not raise and the artifact is not empty.
C3_InterruptKeepsFrames ==
  [][ (Capturing /\ exit_cause' = "interrupt" /\ Len(frames) >= 1 /\ Saved') =>
        /\ pc' = "idle"
        /\ ret'.kind = "path" /\ ret'.file = Len(files')
        /\ wav'.data = frames /\ wav'.data # <<>>
        /\ wav'.data = SessionFrames(stream, Len(frames)) ]_vars

\* an interrupted capture returned the file of its five frames
C3_Witness ==
  /\ Ended /\ exit_cause = "interrupt"
  /\ ret.kind = "path"
  /\ Len(wav.data) = 5

\* C4: a user interrupt that arrives while record_until_silence waits for
\* speech ends the call with KeyboardInterrupt; the recording stream is never
\* opened, no frame is buffered and no file is created.
C4_InterruptWhileWaiting ==
  [][ (AwaitingSpeech /\ exit_cause' = "wait_interrupt") =>
        /\ pc' = "idle"
        /\ ret' = Ret("KeyboardInterrupt")
        /\ callOpened' = {lstream}
        /\ Len(streams') = Len(streams)
        /\ UNCHANGED <<is_recording, frames, stream, files>>
        /\ wav' = NoWav ]_vars

\* the wait was interrupted after two frames had been heard
C4_Witness ==
  /\ Ended /\ exit_cause = "wait_interrupt"
  /\ Len(heard) = 2
  /\ ret.kind = "KeyboardInterrupt"

\* C5: a read that fails while record_until_silence captures, with n frames
\* buffered, ends the capture: the stream is closed, nothing more is read, and
\* the call returns the path of a file holding exactly those n frames (given
\* that the file can be written) instead of raising or discarding them.
C5_ReadFailureKeepsFrames ==
  [][ (Capturing /\ exit_cause' = "error") =>
        /\ pc' = "idle"
        /\ frames' = frames
        /\ ~streams'[stream].open /\ streams'[stream].closes = 1
        /\ ~is_recording'
        /\ Saved' => /\ ret'.kind = "path" /\ ret'.file = Len(files')
                     /\ wav'.data = frames
                     /\ wav'.data = SessionFrames(stream, Len(frames)) ]_vars

\* a capture ended by a failed read returned the file of its three frames
C5_Witness ==
  /\ Ended /\ exit_cause = "error"
  /\ ret.kind = "path"
  /\ Len(wav.data) = 3
  /\ ~streams[stream].open

\* C6: once stop_recording has ended a capture session, the session does not
\* capture again: its stream is not read, closed or reopened, the recorder
\* is not recording into its buffer (the recording flag is set over the
\* ended stream only with a new, empty buffer, after a start_recording
\* whose pyaudio.PyAudio() raised), no frame is appended to its buffer, and
\* record_chunk changes nothing.
C6_FinishedIsTerminal ==
  [][ \A s \in finished :
        /\ streams'[s] = streams[s]
        /\ stream' = s =>
             /\ is_recording' => frames' = <<>>
             /\ pc' # "capturing"
             /\ frames' = frames \/ frames' = <<>>
             /\ op' = "record_chunk" => frames' = frames ]_vars

\* record_chunk was called after a session with frames had ended
C6_Witness ==
  /\ op = "record_chunk"
  /\ stream \in finished
  /\ frames # <<>>

\* transcribe_audio is running or about to run
Transcribing == pc \in {"rat_transcribe", "enter_transcribe"}

\* C7: when transcribe_audio starts, capture has stopped: the recorder is not
\* recording, its stream is closed, the file is written to its end, and no
\* thread is reading frames or appending to the buffer.
C7_TranscribeAfterCaptureStopped ==
  Transcribing =>
    /\ ~is_recording
    /\ stream # 0 /\ ~streams[stream].open
    /\ Saved
    /\ tpc \in {"none", "done"}

\* the streams the last call opened are closed, each exactly once
CallStreamsReleased ==
  \A s \in callOpened : ~streams[s].open /\ streams[s].closes = 1

\* C8: when wait_for_sound, record_until_silence or record_and_transcribe has
\* ended, on any path, every stream it opened has been closed exactly once.
C8_EveryOpenIsClosed ==
  (pc = "idle" /\ op \in {"wait_for_sound", "record_until_silence",
                          "record_and_transcribe"}) => CallStreamsReleased

\* C9: a user interrupt delivered to record_until_silence, while it waits for
\* speech or while it captures, ends the call at that loop iteration with
\* every stream the call opened closed.
C9_InterruptReleasesStreams ==
  (op = "record_until_silence"
     /\ exit_cause \in {"wait_interrupt", "interrupt"}) =>
    /\ pc = "idle"
    /\ CallStreamsReleased
    /\ lstream = 0
    /\ stream \in callOpened => ~is_recording

\* a capture that had opened a listening and a recording stream was
\* interrupted
C9_Witness ==
  /\ Ended /\ exit_cause = "interrupt"
  /\ Cardinality(callOpened) = 2

\* C10: at most one microphone stream is open at any time.
C10_OneOpenStream ==
  Cardinality(OpenIds(streams)) <= 1

\* the turn loop of live mode is at the top of `while True`, or was left
LiveBetweenTurns ==
  \/ pc = "idle" /\ op = "live"
  \/ pc = "live_exit"

\* C11: in live mode no temporary audio file outlives its turn: whenever the
\* loop is between turns or has been left, every file stop_recording created
\* has been deleted, also when the write of the file failed.
C11_TempFilesRemoved ==
  LiveBetweenTurns => \A i \in 1..Len(files) : files[i] = "deleted"

\* C12: stop_recording called again on a recorder whose session it has
\* already closed does not raise and changes nothing.
C12_StopIsIdempotent ==
  [][ (pc = "idle" /\ ~is_recording /\ stream \in finished
         /\ op' = "stop_recording") =>
        /\ ret'.kind # "RuntimeError"
        /\ UNCHANGED <<recVars, streams, files>> ]_vars

\* C13: once speech was captured, the session ends on the first frame at
\* which the consecutive silence reaches silence_duration: no capturing state
\* has a run that long, the run that ended the session was one frame short
\* of the threshold before its last frame, and that frame is the last one in
\* the buffer and the last one read.
C13_StopsAtThreshold ==
  /\ [](Capturing /\ SpeechBeforeTail =>
          /\ consecutive_silence = tail * chunk_duration
          /\ consecutive_silence < silence_duration)
  /\ [](exit_cause = "silence" =>
          /\ pc = "idle"
          /\ (tail - 1) * chunk_duration < silence_duration
          /\ consecutive_silence >= silence_duration
          /\ frames = SessionFrames(stream, Len(frames))
          /\ ~streams[stream].open)
  /\ [][exit_cause' = "silence" =>
          /\ frames' = Append(frames, NextFrame(streams, stream))
          /\ Len(frames') = streams[stream].reads + 1]_vars

\* a session with the short duration ended on its third silent frame
C13_Witness ==
  /\ Ended /\ exit_cause = "silence"
  /\ silence_duration = ShortSilence
  /\ tail * chunk_duration >= ShortSilence
  /\ Len(frames) > tail + 1

\* C14: while a session has captured no speech frame its silence counter is
\* zero and it is not ended by silence, however many non-speech frames it
\* has captured, with or without the wait for speech before it.
C14_SilenceOnlyAfterSpeech ==
  (op = "record_until_silence" /\ ~SpeechBeforeTail) =>
    /\ consecutive_silence = 0
    /\ ~has_recorded_speech
    /\ exit_cause # "silence"

\* a session started without the wait is still capturing after 34 non-speech
\* frames and no speech
C14_Witness ==
  /\ Capturing
  /\ consecutive_chunks = 0
  /\ silence_duration = default_silence_duration
  /\ Len(frames) = 34
  /\ tail = Len(frames)

\* C15: while record_until_silence captures, a frame that was read is
\* appended at the end of the buffer, once, whatever its verdict; a step that
\* reads no frame leaves the buffer as it is; the buffer is the frames read
\* from the stream, in the order read.
C15_BufferAppendOnly ==
  /\ [](Capturing => frames = SessionFrames(stream, streams[stream].reads))
  /\ [][Capturing =>
          IF exit_cause' \in {"error", "interrupt"}
            THEN frames' = frames
            ELSE /\ frames' = Append(frames, NextFrame(streams, stream))
                 /\ SubSeq(frames', 1, Len(frames)) = frames]_vars

\* a buffer of speech, non-speech and speech frames, still capturing
C15_Witness ==
  /\ Capturing
  /\ Len(frames) = 4
  /\ tail = 1
  /\ has_recorded_speech

\* C16: the file stop_recording wrote, read back, reports 1 channel, 16-bit
\* samples, 16000 Hz, and as many samples as the frames of the buffer hold
\* together; its data are the frames of the buffer in capture order.
C16_ArtifactRoundTrip ==
  (Saved /\ wav # NoWav) =>
    /\ WaveRead(wav).nchannels = 1
    /\ WaveRead(wav).bits = 16
    /\ WaveRead(wav).framerate = 16000
    /\ WaveRead(wav).nframes = Len(frames) * chunk
    /\ wav.data = frames

\* a file of two frames was written
C16_Witness ==
  /\ Saved
  /\ ret.kind = "path"
  /\ Len(wav.data) = 2

\* is_speech has returned
Classified == cstages # <<>>

\* C17: a frame whose RMS energy is below the threshold is not speech and
\* only its energy was computed; a frame that passes the energy gate with a
\* zero-crossing rate below 0.01 or above 0.4 is not speech and its spectrum
\* was not computed.
C17_ClassifierShortCircuits ==
  Classified =>
    /\ cframe.rms < cthreshold =>
         ~cverdict /\ cstages = <<"energy">>
    /\ (cframe.rms >= cthreshold /\ (cframe.zcr < 10 \/ cframe.zcr > 400)) =>
         ~cverdict /\ cstages = <<"energy", "zcr">>
    /\ cverdict => cstages = <<"energy", "zcr", "spectrum">>

\* a loud frame with too many zero crossings was rejected at the second stage
C17_Witness ==
  /\ cstages = <<"energy", "zcr">>
  /\ cframe.rms > cthreshold
  /\ cframe.zcr > 400
  /\ ~cverdict

\* C18: is_speech returns speech exactly when RMS >= threshold, 0.01 <= ZCR
\* <= 0.4, the band energies are not all zero and the mid band holds at least
\* a quarter of their total; the verdict of a call is this function of its
\* frame and threshold, whatever was classified before.
C18_ClassifierDecision ==
  Classified =>
    (cverdict <=>
       /\ cframe.rms >= cthreshold
       /\ cframe.zcr >= 10 /\ cframe.zcr <= 400
       /\ cframe.low + cframe.mid + cframe.high # 0
       /\ 4 * cframe.mid >= cframe.low + cframe.mid + cframe.high)

\* a frame on every limit at once was classified speech
C18_Witness ==
  /\ cverdict
  /\ cframe.rms = cthreshold
  /\ cframe.zcr = 400
  /\ cframe.mid = 1 /\ cframe.low + cframe.high = 3

\* the operations whose loops read frames
CaptureLoops ==
  {"wait_for_sound", "record_until_silence", "record_and_transcribe",
   "record_until_enter"}

\* C19: in the capture loops, once a read on a stream has failed no frame is
\* read from that stream again.
C19_ReadFaultNotRetried ==
  [][ (op \in CaptureLoops /\ op' = op) =>
        \A s \in faulted : streams'[s].reads <= streams[s].reads ]_vars

\* a user interrupt was delivered in this turn of live mode
LiveInterrupted ==
  exit_cause \in {"wait_interrupt", "interrupt", "transcribe_interrupt",
                  "ask_interrupt"}

\* C20: in live mode, after a user interrupt has arrived, in whatever phase
\* of the turn, the loop does not come back to its top: no further turn is
\* started.
C20_InterruptEndsLive ==
  LiveInterrupted => ~(pc = "idle" /\ op = "live")

\* C21: every capture session of a reused recorder starts with an empty
\* buffer, a zero silence duration and a false has-speech flag on a stream
\* no earlier session used; while it captures, its buffer holds exactly the
\* frames read from its stream, in order, and the file it writes holds
\* exactly that buffer.
C21_NoStateCrossesSessions ==
  /\ [](Capturing => frames = SessionFrames(stream, streams[stream].reads))
  /\ [][ /\ (pc = "rus_start" /\ pc' = "capturing") =>
              /\ frames' = <<>>
              /\ consecutive_silence' = 0
              /\ ~has_recorded_speech'
              /\ stream' \notin finished
              /\ streams'[stream'].reads = 0
         /\ (Capturing /\ pc' = "idle" /\ Saved') =>
              /\ wav'.data = frames'
              /\ frames' \in {frames, FramesAfterRead(frames, streams, stream)}
       ]_vars

\* a second session on the same recorder wrote a file of two or more frames
\* after the first session had written its own
C21_Witness ==
  /\ Ended /\ Saved /\ ret.kind = "path"
  /\ stream = 2 /\ finished = {1, 2}
  /\ Len(files) = 2
  /\ Len(wav.data) >= 2

\* C22: a start_recording on an idle recorder that fails to bring up the
\* device raises, opens no stream (no second attempt) and leaves the
\* recorder not recording, whichever step of bringing up the device failed.
C22_OpenFailureLeavesIdle ==
  [][ (pc = "idle" /\ ~is_recording
         /\ op' = "start_recording" /\ ret'.kind # "None") =>
        /\ ret'.kind \in {"RuntimeError", "OSError"}
        /\ streams' = streams
        /\ ~is_recording' ]_vars

\* C23: start_recording on a recorder that is recording raises RuntimeError
\* ("Already recording") and changes nothing: the buffer, the stream, the
\* device and the recording flag are after the call what they were before
\* it, whether the client calls it or record_until_silence does.
C23_StartWhileRecordingRejected ==
  [][ (is_recording /\ \/ pc = "idle" /\ op' = "start_recording"
                       \/ pc = "rus_start" /\ pc' # pc) =>
        /\ ret'.kind = "RuntimeError"
        /\ pc' = "idle"
        /\ frames' = frames
        /\ stream' = stream
        /\ streams' = streams
        /\ is_recording' ]_vars

\* start_recording was rejected on a recorder with an open stream and three
\* buffered frames
C23_Witness ==
  /\ pc = "idle" /\ op = "start_recording" /\ ret.kind = "RuntimeError"
  /\ is_recording /\ stream # 0 /\ streams[stream].open
  /\ frames = SessionFrames(stream, 3)

\* a synthetic signal with energy at or above the threshold was classified
ClassifiedTone == Classified /\ csignal.kind = "tone"
ClassifiedMultiband == Classified /\ csignal.kind = "multiband"

\* the formants of the signal all have the same, non-zero, peak
Balanced(sig) ==
  \A f, g \in DOMAIN sig.peaks : sig.peaks[f] = sig.peaks[g] /\ sig.peaks[f] > 0

SilentAfterGate ==
  /\ Capturing
  /\ consecutive_chunks > 0
  /\ TrailingSpeech(heard) = consecutive_chunks
  /\ tail = Len(frames)

\* C25: a hands-free session whose gate has opened and whose captured frames
\* are all non-speech has ended once they last about silence_duration: it
\* is not capturing any more when they last twice silence_duration.
C25_SilentSessionEnds ==
  SilentAfterGate => Len(frames) * chunk_duration < 2 * silence_duration

\* C26: in record_until_enter, once stop_recording has written the file,
\* every frame the record loop has read from the device is in it, in the
\* order read: the loop holds no frame it has read and not yet appended,
\* and the buffer is what was written.
C26_NoFrameLostAtStop ==
  (op = "record_until_enter" /\ wav # NoWav) =>
    /\ tdata = <<>>
    /\ wav.data = frames
    /\ \A i \in 1..Len(wav.data) : wav.data[i] = <<stream, i>>

\* C27: while record_until_silence waits for speech the buffer is not
\* touched; the buffer is empty when capture starts; while it captures, and
\* in the file it writes, there are only frames of the recording stream,
\* which was opened after the listening stream had delivered the frames
\* that opened the gate and had been closed.
C27_NothingBufferedWhileAwaiting ==
  /\ [][ AwaitingSpeech => frames' = frames ]_vars
  /\ [][ (pc = "rus_start" /\ pc' = "capturing") =>
           /\ frames' = <<>>
           /\ \A l \in callOpened : stream' > l /\ ~streams[l].open ]_vars
  /\ [](Capturing => \A i \in 1..Len(frames) : frames[i][1] = stream)
  /\ []((Ended /\ ret.kind = "path" /\ wav # NoWav) =>
          /\ \A i \in 1..Len(wav.data) : wav.data[i][1] = stream
          /\ \A l \in callOpened \ {stream} :
               l < stream /\ \A i \in 1..Len(wav.data) : wav.data[i][1] # l)

\* a session whose gate opened on three speech frames wrote a file of two
\* frames of its recording stream
C27_Witness ==
  /\ Ended /\ Saved /\ ret.kind = "path"
  /\ heard = <<TRUE, TRUE, TRUE>>
  /\ callOpened = {1, 2} /\ stream = 2
  /\ wav.data = SessionFrames(2, 2)

\* self.stream is a stream that is open
RecordingStreamOpen ==
  stream # 0 /\ streams[stream].open

\* C28: whenever no operation of the recorder is in progress, is_recording
\* is true exactly when the recording stream is open.
C28_FlagAgreesWithDevice ==
  pc = "idle" => (is_recording <=> RecordingStreamOpen)

(***************************************************************************)
(* The history of one ConversationManager.                                 *)
(***************************************************************************)
\* the history is a sequence of (user, assistant) pairs
CompleteExchanges(h) ==
  /\ Len(h) % 2 = 0
  /\ \A i \in 1..Len(h) :
       h[i][1] = (IF i % 2 = 1 THEN "user" ELSE "assistant")

AskedOnce ==
  \E q \in Messages, a \in Answers :
    conversation_history' = conversation_history \o Exchange(q, a)

\* C29: whatever ask and clear_history calls were made on a manager, its
\* history has even length and alternates user, assistant, starting with
\* user; an ask that returns appends exactly one (user, assistant) pair at
\* the end, an ask whose model call raises leaves the history as it was,
\* and clear_history leaves it empty.
C29_HistoryOfCompleteExchanges ==
  [][ /\ CompleteExchanges(conversation_history)
      /\ CompleteExchanges(conversation_history')
      /\ (op' = "ask" /\ ret' = Ret("answer")) => AskedOnce
      /\ (op' = "ask" /\ ret' = Ret("Exception"))
           => conversation_history' = conversation_history
      /\ op' = "ask"
           => (conversation_history' = conversation_history \/ AskedOnce)
      /\ op' = "clear_history" => conversation_history' = <<>> ]_vars

\* two exchanges are in the history and a model call has just failed
C29_Witness ==
  /\ op = "ask"
  /\ ret = Ret("Exception")
  /\ Len(conversation_history) = 4
  /\ conversation_history[2] = <<"assistant", 1>>
  /\ conversation_history[4] = <<"assistant", 0>>

(***************************************************************************)
(* The turns of live mode.                                                 *)
(***************************************************************************)
\* main is at the top of `while True`
LiveLoopTop == pc = "idle" /\ op = "live"

\* a step of the loop that ended one of its three calls with an exception
\* other than KeyboardInterrupt, or with an empty transcription
LiveStepFailed ==
  \/ /\ pc = "idle" /\ op = "record_until_silence" /\ pc' = "idle"
     /\ ret.kind \notin {"path", "KeyboardInterrupt"}
  \/ /\ pc = "live_transcribe"
     /\ ret'.kind \in {"empty", "RuntimeError"}
  \/ /\ pc = "live_ask"
     /\ ret' = Ret("Exception")

\* C30: in live mode the turn number goes up, by one, only in the step in
\* which the model answered a non-empty transcription of a file the recording
\* returned, and that step appends one exchange; a failure of the recording,
\* of the transcription or of the model call other than an interrupt, and
\* an empty transcription, leave turn number and history as they were and
\* take the loop back to its top.
C30_TurnCompletedOnlyAfterAnswer ==
  [][ /\ (op # "none" /\ turn_number' # turn_number) =>
           /\ pc = "live_ask"
           /\ ret.kind = "text"
           /\ ret' = Ret("answer")
           /\ turn_number' = turn_number + 1
           /\ AskedOnce
      /\ pc' = "live_ask" => (pc = "live_transcribe" /\ ret'.kind = "text")
      /\ pc' = "live_transcribe" => ret.kind = "path"
      /\ LiveStepFailed =>
           /\ UNCHANGED <<turn_number, conversation_history>>
           /\ pc' = "idle"
           /\ op' = "live" ]_vars

\* a loaded conversation of one exchange got a second one in turn 2, and the
\* loop is back at its top in turn 3
C30_Witness ==
  /\ LiveLoopTop
  /\ ret = Ret("answer")
  /\ turn_number = 3
  /\ Len(conversation_history) = 4
  /\ stored = StoreOf(conversation_history)

(***************************************************************************)
(* The conversation file under several processes.                          *)
(***************************************************************************)
\* no command is between its load and its save
CliQuiet == \A p \in Procs : cli_pc[p] \in {"start", "done"}

\* exchanges in conversation.pkl
SavedExchanges == Len(stored.history) \div 2

\* C31: whenever the commands and turns run so far have ended, by however
\* many processes and in whatever interleaving of their loads, asks and
\* saves, the saved history holds one exchange for every ask that completed.
C31_NoExchangeLost ==
  CliQuiet => SavedExchanges >= completed

(***************************************************************************)
(* The dispatch of the converse loop.                                      *)
(***************************************************************************)
\* the line without the white space around it
Content(l) == [l EXCEPT !.pad = FALSE]

\* the line is the command "/w" for a w of ws, in whatever letter case,
\* with or without an argument
Names(l, ws) == l.slash /\ l.word \in ws

KnownCommands == {"exit", "quit", "q", "clear", "history", "save", "help"}

\* C32: in an iteration of the converse loop, a line that is empty or whose
\* first character, white space aside, is "/" is not given to the model
\* and leaves the history as it was unless it is /clear; /exit, /quit and
\* /q end the loop, /clear empties the history, /history and /save leave it
\* unchanged, an unknown command leaves it unchanged and the loop goes on;
\* every other line is given to manager.ask once and to the model once,
\* unless the log write before the model call raised, and an exception of
\* that call does not end the loop.
C32_CommandsNeverReachModel ==
  [][ op' = "converse" =>
        /\ (typed'.slash \/ typed'.word = "") =>
             /\ sent' = <<>>
             /\ asks' = asks
             /\ \/ conversation_history' = conversation_history
                \/ Names(typed', {"clear"}) /\ conversation_history' = <<>>
        /\ Names(typed', {"exit", "quit", "q"}) => pc' = "converse_exit"
        /\ Names(typed', {"clear"}) => conversation_history' = <<>>
        /\ Names(typed', {"history", "save"}) =>
             conversation_history' = conversation_history
        /\ (typed'.slash /\ typed'.word \notin KnownCommands) =>
             /\ conversation_history' = conversation_history
             /\ ret' = Ret("None")
             /\ pc' = "converse_input"
        /\ (~typed'.slash /\ typed'.word # "") =>
             /\ asks' = asks + 1
             /\ \/ sent' = <<Content(typed')>>
                \/ /\ sent' = <<>>
                   /\ ret' = Ret("OSError")
                   /\ conversation_history' = conversation_history
             /\ ret' \in {Ret("Exception"), Ret("OSError")} =>
                  pc' = "converse_input" ]_vars

\* the line "  EXIT  " went to the model after an earlier exchange, the call
\* failed, and the loop is at its prompt again
C32_Witness ==
  /\ pc = "converse_input"
  /\ op = "converse"
  /\ typed.pad /\ typed.upper /\ ~typed.slash /\ typed.word = "exit"
  /\ sent = <<Content(typed)>>
  /\ ret = Ret("Exception")
  /\ Len(conversation_history) = 2
====
